---- MODULE Spec2Model ----
(***************************************************************************)
(* A model of the berghain_puzzle admission controller: the Scenario1      *)
(* strategy (src/src/berghain/strategies/scenario_1.py), the GameRunner    *)
(* session controller (src/src/berghain/game_runner.py) and the client of  *)
(* the candidate source (src/src/berghain/api.py).                         *)
(*                                                                         *)
(* Python floats are modelled as exact rationals [n, d] in lowest terms;   *)
(* every comparison is the exact comparison of the two rationals.          *)
(***************************************************************************)
EXTENDS Integers, Sequences, FiniteSets, TLC

VARIABLES strategy, runner, server, rng, loop_left, step_records, raised, tape, peer,
          calls

vars == <<strategy, runner, server, rng, loop_left, step_records, raised, tape, peer,
          calls>>

(***************************************************************************)
(* Bounds of the model.                                                    *)
(***************************************************************************)
\* admissions after which the candidate source of Spec ends the game
ServerCapacity == 2
\* rejections after which the candidate source of Spec ends the game
ServerRejections == 1
\* calls of one strategy method made in a row outside a session
MaxCalls == 2
\* transport errors the candidate source may raise in one run
MaxFaults == 1
\* largest num_steps a caller passes to step()
MaxNumSteps == 2

(***************************************************************************)
(* Exact rational arithmetic standing for Python's float arithmetic.       *)
(***************************************************************************)
RECURSIVE GCD(_, _)
GCD(a, b) == IF b = 0 THEN a ELSE GCD(b, a % b)

Abs(x) == IF x < 0 THEN -x ELSE x

\* the rational n/d, d # 0, in lowest terms with a positive denominator
R(n, d) ==
    LET g == GCD(Abs(n), Abs(d))
        s == IF d < 0 THEN -1 ELSE 1
    IN [n |-> s * (n \div g), d |-> s * (d \div g)]

\* the outcome of a float division by zero (Python raises ZeroDivisionError)
ZeroDivisionError == [n |-> 0, d |-> 0]

\* sums and products reduce before they multiply, to stay within the integers
RAdd(a, b) ==
    LET g == GCD(a.d, b.d)
    IN R(a.n * (b.d \div g) + b.n * (a.d \div g), (a.d \div g) * b.d)
RSub(a, b) == RAdd(a, [n |-> -b.n, d |-> b.d])
RMul(a, b) ==
    LET g1 == GCD(Abs(a.n), b.d)
        g2 == GCD(Abs(b.n), a.d)
    IN R((a.n \div g1) * (b.n \div g2), (a.d \div g2) * (b.d \div g1))
RDiv(a, b) ==
    IF b.n = 0 THEN ZeroDivisionError
    ELSE RMul(a, IF b.n < 0 THEN [n |-> -b.d, d |-> -b.n] ELSE [n |-> b.d, d |-> b.n])
RLt(a, b) == a.n * b.d < b.n * a.d
RLe(a, b) == a.n * b.d <= b.n * a.d
RGt(a, b) == RLt(b, a)
RGe(a, b) == RLe(b, a)
RMin(a, b) == IF RLt(b, a) THEN b ELSE a
RMax(a, b) == IF RGt(b, a) THEN b ELSE a
Int2R(k) == [n |-> k, d |-> 1]

(***************************************************************************)
(* Python values: None, dicts and their get().                             *)
(***************************************************************************)
None == [none |-> TRUE]

EmptyDict == [k \in {} |-> 0]

\* dict.get(key, default)
Get(dict, key, default) == IF key \in DOMAIN dict THEN dict[key] ELSE default

\* dict[key] = value
Put(dict, key, value) == [k \in (DOMAIN dict) \cup {key} |-> IF k = key THEN value ELSE dict[k]]

\* the attribute names a candidate carries, quota attributes and others
AttrNames == {"A", "B", "N", "X"}

\* person.attributes: every attribute name with its boolean
Attributes(trueSet) == [a \in AttrNames |-> a \in trueSet]

\* all(not attributes.get(attr, False) for attr in attributes)
NoTrueAttribute(attributes) == \A attr \in DOMAIN attributes : ~attributes[attr]

(***************************************************************************)
(* Scenario1Strategy (strategies/scenario_1.py).  self is the record of    *)
(* the object's fields; _attribute_statistics is stored and never read.    *)
(***************************************************************************)
\* Scenario1Strategy.__init__: stores its three parameters unchecked
Scenario1Strategy_init(initial_tolerance, final_tolerance, strictness_start) ==
    [initial_tolerance |-> initial_tolerance,
     final_tolerance |-> final_tolerance,
     strictness_start |-> strictness_start,
     _constraints |-> <<>>,
     _relative_frequencies |-> EmptyDict,
     _correlations |-> EmptyDict]

\* _calculate_current_tolerance with the strictness_start test made first
_calculate_current_tolerance_StrictnessFirst(self, admitted_count) ==
    LET progress == R(admitted_count, 1000)
        strictness_progress ==
            RDiv(RSub(progress, self.strictness_start),
                 RSub(Int2R(1), self.strictness_start))
        clamped ==
            IF strictness_progress = ZeroDivisionError THEN ZeroDivisionError
            ELSE RMin(Int2R(1), RMax(Int2R(0), strictness_progress))
    IN  IF RLe(progress, self.strictness_start) THEN self.initial_tolerance
        ELSE IF RGe(progress, R(95, 100)) THEN Int2R(0)
        ELSE IF clamped = ZeroDivisionError THEN ZeroDivisionError
        ELSE RSub(self.initial_tolerance,
                  RMul(RSub(self.initial_tolerance, self.final_tolerance), clamped))

\* _calculate_current_tolerance interpolating towards 0, not final_tolerance
_calculate_current_tolerance_ToZero(self, admitted_count) ==
    LET progress == R(admitted_count, 1000)
        strictness_progress ==
            RDiv(RSub(progress, self.strictness_start),
                 RSub(Int2R(1), self.strictness_start))
        clamped ==
            IF strictness_progress = ZeroDivisionError THEN ZeroDivisionError
            ELSE RMin(Int2R(1), RMax(Int2R(0), strictness_progress))
    IN  IF RGe(progress, R(95, 100)) THEN Int2R(0)
        ELSE IF RLe(progress, self.strictness_start) THEN self.initial_tolerance
        ELSE IF clamped = ZeroDivisionError THEN ZeroDivisionError
        ELSE RSub(self.initial_tolerance, RMul(self.initial_tolerance, clamped))

\* _calculate_current_tolerance with the interpolation term added
_calculate_current_tolerance_Plus(self, admitted_count) ==
    LET progress == R(admitted_count, 1000)
        strictness_progress ==
            RDiv(RSub(progress, self.strictness_start),
                 RSub(Int2R(1), self.strictness_start))
        clamped ==
            IF strictness_progress = ZeroDivisionError THEN ZeroDivisionError
            ELSE RMin(Int2R(1), RMax(Int2R(0), strictness_progress))
    IN  IF RGe(progress, R(95, 100)) THEN Int2R(0)
        ELSE IF RLe(progress, self.strictness_start) THEN self.initial_tolerance
        ELSE IF clamped = ZeroDivisionError THEN ZeroDivisionError
        ELSE RAdd(self.initial_tolerance,
                  RMul(RSub(self.initial_tolerance, self.final_tolerance), clamped))

\* _calculate_current_tolerance without the return of initial_tolerance before
\* strictness_start
_calculate_current_tolerance_NoEarlyReturn(self, admitted_count) ==
    LET progress == R(admitted_count, 1000)
        strictness_progress ==
            RDiv(RSub(progress, self.strictness_start),
                 RSub(Int2R(1), self.strictness_start))
        clamped ==
            IF strictness_progress = ZeroDivisionError THEN ZeroDivisionError
            ELSE RMin(Int2R(1), RMax(Int2R(0), strictness_progress))
    IN  IF RGe(progress, R(95, 100)) THEN Int2R(0)
        ELSE IF clamped = ZeroDivisionError THEN ZeroDivisionError
        ELSE RSub(self.initial_tolerance,
                  RMul(RSub(self.initial_tolerance, self.final_tolerance), clamped))

_calculate_current_tolerance(self, admitted_count) ==
    LET progress == R(admitted_count, 1000)
        strictness_progress ==
            RDiv(RSub(progress, self.strictness_start),
                 RSub(Int2R(1), self.strictness_start))
        clamped ==
            IF strictness_progress = ZeroDivisionError THEN ZeroDivisionError
            ELSE RMin(Int2R(1), RMax(Int2R(0), strictness_progress))
    IN  IF RGe(progress, R(95, 100)) THEN Int2R(0)
        ELSE IF RLe(progress, self.strictness_start) THEN self.initial_tolerance
        ELSE IF clamped = ZeroDivisionError THEN ZeroDivisionError
        ELSE RSub(self.initial_tolerance,
                  RMul(RSub(self.initial_tolerance, self.final_tolerance), clamped))

\* max(c.min_count / 1000.0 for c in constraints[1..k])
RECURSIVE MaxConstraintPercentage(_, _)
MaxConstraintPercentage(constraints, k) ==
    IF k = 1 THEN R(constraints[1].min_count, 1000)
    ELSE RMax(MaxConstraintPercentage(constraints, k - 1), R(constraints[k].min_count, 1000))

\* sum(c.min_count / 1000.0 for c in constraints[1..k])
RECURSIVE TotalConstraintPercentage(_, _)
TotalConstraintPercentage(constraints, k) ==
    IF k = 0 THEN Int2R(0)
    ELSE RAdd(TotalConstraintPercentage(constraints, k - 1), R(constraints[k].min_count, 1000))

_calculate_no_attributes_target_basic(self) ==
    IF self._constraints = <<>> THEN R(4, 10)
    ELSE LET k == Len(self._constraints)
             estimated_constraint_coverage ==
                 RMax(MaxConstraintPercentage(self._constraints, k),
                      RMul(TotalConstraintPercentage(self._constraints, k), R(6, 10)))
             no_attr_target == RSub(Int2R(1), estimated_constraint_coverage)
         IN RMax(R(1, 10), RMin(R(7, 10), no_attr_target))

\* prob_none after the loop over constraints[1..k] (more than two quotas)
RECURSIVE ProbNone(_, _, _)
ProbNone(self, constraints, k) ==
    IF k = 0 THEN Int2R(1)
    ELSE RMul(ProbNone(self, constraints, k - 1),
              RSub(Int2R(1), Get(self._relative_frequencies, constraints[k].attribute, R(1, 2))))

\* _calculate_no_attributes_target_with_statistics with the correlation left
\* out of the joint probability
_calculate_no_attributes_target_with_statistics_Independent(self) ==
    IF self._constraints = <<>> \/ self._relative_frequencies = EmptyDict
    THEN _calculate_no_attributes_target_basic(self)
    ELSE IF Len(self._constraints) = 1
    THEN RSub(Int2R(1), Get(self._relative_frequencies, self._constraints[1].attribute, R(1, 2)))
    ELSE IF Len(self._constraints) = 2
    THEN LET attr1 == self._constraints[1].attribute
             attr2 == self._constraints[2].attribute
             freq1 == Get(self._relative_frequencies, attr1, R(1, 2))
             freq2 == Get(self._relative_frequencies, attr2, R(1, 2))
             correlation == Get(Get(self._correlations, attr1, EmptyDict), attr2, Int2R(0))
             joint0 == RMul(freq1, freq2)
             joint_prob == RMin(joint0, RMin(freq1, freq2))
             prob_either == RSub(RAdd(freq1, freq2), joint_prob)
             prob_neither == RSub(Int2R(1), prob_either)
         IN RMax(R(5, 100), RMin(R(8, 10), prob_neither))
    ELSE RMax(R(5, 100), RMin(R(8, 10), ProbNone(self, self._constraints, Len(self._constraints))))

_calculate_no_attributes_target_with_statistics(self) ==
    IF self._constraints = <<>> \/ self._relative_frequencies = EmptyDict
    THEN _calculate_no_attributes_target_basic(self)
    ELSE IF Len(self._constraints) = 1
    THEN RSub(Int2R(1), Get(self._relative_frequencies, self._constraints[1].attribute, R(1, 2)))
    ELSE IF Len(self._constraints) = 2
    THEN LET attr1 == self._constraints[1].attribute
             attr2 == self._constraints[2].attribute
             freq1 == Get(self._relative_frequencies, attr1, R(1, 2))
             freq2 == Get(self._relative_frequencies, attr2, R(1, 2))
             correlation == Get(Get(self._correlations, attr1, EmptyDict), attr2, Int2R(0))
             joint0 == RMul(RMul(freq1, freq2), RAdd(Int2R(1), RMax(Int2R(0), correlation)))
             joint_prob == RMin(joint0, RMin(freq1, freq2))
             prob_either == RSub(RAdd(freq1, freq2), joint_prob)
             prob_neither == RSub(Int2R(1), prob_either)
         IN RMax(R(5, 100), RMin(R(8, 10), prob_neither))
    ELSE RMax(R(5, 100), RMin(R(8, 10), ProbNone(self, self._constraints, Len(self._constraints))))

\* sum(1 for person in admitted_people if all(not person.get(attr, False) for attr in person))
current_no_attr_count(admitted_people) ==
    Cardinality({i \in 1..Len(admitted_people) : NoTrueAttribute(admitted_people[i])})

\* current_no_attr_percentage, 0 while nobody is admitted
current_no_attr_percentage(current_stats) ==
    IF current_stats.admitted_people = <<>> THEN Int2R(0)
    ELSE R(current_no_attr_count(current_stats.admitted_people), Len(current_stats.admitted_people))

\* the test that returns False before any draw: the share is above target + 0.02
NoAttrOverRepresented(self, current_stats) ==
    RGt(current_no_attr_percentage(current_stats),
        RAdd(_calculate_no_attributes_target_with_statistics(self), R(2, 100)))

\* base_rate: the step function of progress
base_rate(admitted_count) ==
    LET progress == R(admitted_count, 1000)
    IN  IF RLe(progress, R(5, 100)) THEN R(2, 10)
        ELSE IF RLe(progress, R(15, 100)) THEN R(15, 100)
        ELSE IF RLe(progress, R(3, 10)) THEN R(1, 10)
        ELSE IF RLe(progress, R(5, 10)) THEN R(5, 100)
        ELSE IF RLe(progress, R(7, 10)) THEN R(2, 100)
        ELSE IF RLe(progress, R(9, 10)) THEN R(1, 100)
        ELSE R(5, 1000)

\* some constraint's share of the admitted is below its target share - 0.05
any_constraint_struggling(self, current_stats) ==
    \E i \in 1..Len(self._constraints) :
        LET c == self._constraints[i]
            current_count == Get(current_stats.attribute_counts, c.attribute, 0)
        IN RLt(R(current_count, Len(current_stats.admitted_people)),
               RSub(R(c.min_count, 1000), R(5, 100)))

\* acceptance_rate as it stands when the random draw is made
acceptance_rate(self, admitted_count, current_stats) ==
    LET base == base_rate(admitted_count)
        share == current_no_attr_percentage(current_stats)
        target == _calculate_no_attributes_target_with_statistics(self)
        adjusted ==
            IF RLt(share, RSub(target, R(1, 10))) THEN RMin(R(3, 10), RMul(base, R(15, 10)))
            ELSE IF RLt(share, RSub(target, R(3, 100))) THEN RMin(R(2, 10), RMul(base, R(12, 10)))
            ELSE IF RLt(share, target) THEN base
            ELSE RMul(base, R(1, 10))
    IN  IF self._constraints # <<>> /\ current_stats.admitted_people # <<>>
           /\ any_constraint_struggling(self, current_stats)
        THEN RMul(adjusted, R(1, 2))
        ELSE adjusted

\* draw is the value random.random() returns when it is called
_decide_no_attributes_person(self, admitted_count, current_stats, draw) ==
    IF NoAttrOverRepresented(self, current_stats) THEN FALSE
    ELSE RLt(draw, acceptance_rate(self, admitted_count, current_stats))

_calculate_expected_attribute_yield(self, attr, remaining_people) ==
    IF self._relative_frequencies = EmptyDict THEN RMul(Int2R(remaining_people), R(1, 2))
    ELSE RMul(Int2R(remaining_people), Get(self._relative_frequencies, attr, R(1, 2)))

\* OverRepresented with the test of the candidate's attribute inverted
OverRepresented_LacksAttr(self, constraint, person, current_stats) ==
    LET total_admitted == Len(current_stats.admitted_people)
        current_count == Get(current_stats.attribute_counts, constraint.attribute, 0)
        current_percentage ==
            IF total_admitted > 0 THEN R(current_count, total_admitted) ELSE Int2R(0)
    IN  /\ ~Get(person.attributes, constraint.attribute, FALSE)
        /\ RGt(current_percentage,
               RAdd(R(constraint.min_count, 1000),
                    _calculate_current_tolerance(self, total_admitted)))

\* the over-representation test of one constraint
OverRepresented(self, constraint, person, current_stats) ==
    LET total_admitted == Len(current_stats.admitted_people)
        current_count == Get(current_stats.attribute_counts, constraint.attribute, 0)
        current_percentage ==
            IF total_admitted > 0 THEN R(current_count, total_admitted) ELSE Int2R(0)
    IN  /\ Get(person.attributes, constraint.attribute, FALSE)
        /\ RGt(current_percentage,
               RAdd(R(constraint.min_count, 1000),
                    _calculate_current_tolerance(self, total_admitted)))

\* UnderRepresented with the test of the candidate's attribute inverted
UnderRepresented_HasAttr(self, constraint, person, current_stats) ==
    LET attr == constraint.attribute
        total_admitted == Len(current_stats.admitted_people)
        remaining_spots == 1000 - total_admitted
        current_count == Get(current_stats.attribute_counts, attr, 0)
        current_percentage ==
            IF total_admitted > 0 THEN R(current_count, total_admitted) ELSE Int2R(0)
        still_needed == constraint.min_count - current_count
    IN  /\ Get(person.attributes, attr, FALSE)
        /\ RLt(current_percentage, RSub(R(constraint.min_count, 1000), R(8, 100)))
        /\ IF self._relative_frequencies # EmptyDict /\ attr \in DOMAIN self._relative_frequencies
           THEN RLt(_calculate_expected_attribute_yield(self, attr, remaining_spots),
                    RMul(Int2R(still_needed), R(12, 10)))
           ELSE RGt(Int2R(still_needed), RMul(Int2R(remaining_spots), R(7, 10)))

\* the under-representation test of one constraint
UnderRepresented(self, constraint, person, current_stats) ==
    LET attr == constraint.attribute
        total_admitted == Len(current_stats.admitted_people)
        remaining_spots == 1000 - total_admitted
        current_count == Get(current_stats.attribute_counts, attr, 0)
        current_percentage ==
            IF total_admitted > 0 THEN R(current_count, total_admitted) ELSE Int2R(0)
        still_needed == constraint.min_count - current_count
    IN  /\ ~Get(person.attributes, attr, FALSE)
        /\ RLt(current_percentage, RSub(R(constraint.min_count, 1000), R(8, 100)))
        /\ IF self._relative_frequencies # EmptyDict /\ attr \in DOMAIN self._relative_frequencies
           THEN RLt(_calculate_expected_attribute_yield(self, attr, remaining_spots),
                    RMul(Int2R(still_needed), R(12, 10)))
           ELSE RGt(Int2R(still_needed), RMul(Int2R(remaining_spots), R(7, 10)))

\* the constraints decide() iterates over: the stored ones, else the game state's
DecideConstraints(self, game_state) ==
    IF self._constraints = <<>> THEN game_state.constraints ELSE self._constraints

\* correlation_bonus of the loop: the sum of the correlations above 0.1 between
\* attr, which the candidate has, and the candidate's other true attributes;
\* 0 unless the candidate has attr and at least two true attributes
correlation_bonus(self, attr, person) ==
    LET person_attrs == {a \in DOMAIN person.attributes : person.attributes[a]}
        others == {a \in person_attrs :
                      /\ a # attr
                      /\ a \in DOMAIN Get(self._correlations, attr, EmptyDict)
                      /\ RGt(self._correlations[attr][a], R(1, 10))}
        RECURSIVE Sum(_)
        Sum(S) == IF S = {} THEN Int2R(0)
                  ELSE LET a == CHOOSE x \in S : TRUE
                       IN RAdd(self._correlations[attr][a], Sum(S \ {a}))
    IN IF Get(person.attributes, attr, FALSE) /\ self._correlations # EmptyDict
          /\ Cardinality(person_attrs) > 1
       THEN Sum(others)
       ELSE Int2R(0)

\* the for loop returning True on a correlation bonus above 0.2
RECURSIVE ConstraintLoop_BonusAdmits(_, _, _, _, _)
ConstraintLoop_BonusAdmits(self, constraints, person, current_stats, i) ==
    IF i > Len(constraints) THEN TRUE
    ELSE IF OverRepresented(self, constraints[i], person, current_stats) THEN FALSE
    ELSE IF UnderRepresented(self, constraints[i], person, current_stats) THEN FALSE
    ELSE IF RGt(correlation_bonus(self, constraints[i].attribute, person), R(2, 10)) THEN TRUE
    ELSE ConstraintLoop_BonusAdmits(self, constraints, person, current_stats, i + 1)

\* the for loop with the verdict of the last constraint as its result
RECURSIVE ConstraintLoop_LastDecides(_, _, _, _, _)
ConstraintLoop_LastDecides(self, constraints, person, current_stats, i) ==
    IF i > Len(constraints) THEN TRUE
    ELSE IF i = Len(constraints)
    THEN ~(\/ OverRepresented(self, constraints[i], person, current_stats)
           \/ UnderRepresented(self, constraints[i], person, current_stats))
    ELSE ConstraintLoop_LastDecides(self, constraints, person, current_stats, i + 1)

\* the for loop returning True after its first constraint
RECURSIVE ConstraintLoop_FirstOnly(_, _, _, _, _)
ConstraintLoop_FirstOnly(self, constraints, person, current_stats, i) ==
    IF i > 1 THEN TRUE
    ELSE IF OverRepresented(self, constraints[i], person, current_stats) THEN FALSE
    ELSE IF UnderRepresented(self, constraints[i], person, current_stats) THEN FALSE
    ELSE ConstraintLoop_FirstOnly(self, constraints, person, current_stats, i + 1)

\* the for loop over constraints[i..]: False at the first rejecting constraint
\* (the correlation bonus it computes is printed only)
RECURSIVE ConstraintLoop(_, _, _, _, _)
ConstraintLoop(self, constraints, person, current_stats, i) ==
    IF i > Len(constraints) THEN TRUE
    ELSE IF OverRepresented(self, constraints[i], person, current_stats) THEN FALSE
    ELSE IF UnderRepresented(self, constraints[i], person, current_stats) THEN FALSE
    ELSE ConstraintLoop(self, constraints, person, current_stats, i + 1)

\* decide with the capacity test made by > instead of >=
decide_GateStrict(self, person, game_state, current_stats, draw) ==
    IF game_state.admitted_count > 1000 THEN FALSE
    ELSE IF NoTrueAttribute(person.attributes)
    THEN _decide_no_attributes_person(self, game_state.admitted_count, current_stats, draw)
    ELSE IF Len(current_stats.admitted_people) = 0 THEN TRUE
    ELSE IF DecideConstraints(self, game_state) = <<>> THEN TRUE
    ELSE ConstraintLoop(self, DecideConstraints(self, game_state), person, current_stats, 1)

\* decide without the "accept to get started" test
decide_NoBootstrap(self, person, game_state, current_stats, draw) ==
    IF game_state.admitted_count >= 1000 THEN FALSE
    ELSE IF NoTrueAttribute(person.attributes)
    THEN _decide_no_attributes_person(self, game_state.admitted_count, current_stats, draw)
    ELSE IF DecideConstraints(self, game_state) = <<>> THEN TRUE
    ELSE ConstraintLoop(self, DecideConstraints(self, game_state), person, current_stats, 1)

decide(self, person, game_state, current_stats, draw) ==
    IF game_state.admitted_count >= 1000 THEN FALSE
    ELSE IF NoTrueAttribute(person.attributes)
    THEN _decide_no_attributes_person(self, game_state.admitted_count, current_stats, draw)
    ELSE IF Len(current_stats.admitted_people) = 0 THEN TRUE
    ELSE IF DecideConstraints(self, game_state) = <<>> THEN TRUE
    ELSE ConstraintLoop(self, DecideConstraints(self, game_state), person, current_stats, 1)

\* whether decide() calls random.random() for this candidate
DrawsRandom(self, person, game_state, current_stats) ==
    /\ game_state.admitted_count < 1000
    /\ NoTrueAttribute(person.attributes)
    /\ ~NoAttrOverRepresented(self, current_stats)

\* the strategy object after decide(): _constraints latched from the game state
decide_self(self, person, game_state, current_stats) ==
    IF /\ game_state.admitted_count < 1000
       /\ ~NoTrueAttribute(person.attributes)
       /\ Len(current_stats.admitted_people) # 0
       /\ self._constraints = <<>>
       /\ game_state.constraints # <<>>
    THEN [self EXCEPT !._constraints = game_state.constraints]
    ELSE self

on_game_start(self, game_state) ==
    [self EXCEPT !._constraints = game_state.constraints,
                 !._relative_frequencies = game_state.attribute_statistics.relative_frequencies,
                 !._correlations = game_state.attribute_statistics.correlations]

(***************************************************************************)
(* The candidate source: the remote service behind BerghainAPI (api.py).   *)
(* It numbers the candidates it serves 0, 1, 2, ..., counts the decisions  *)
(* it receives, and ends the game when its capacity is admitted            *)
(* ("completed") or its rejection budget is spent ("failed").  A request   *)
(* that raises (raise_for_status, a connection error) leaves it as it was. *)
(***************************************************************************)
\* the candidate the source serves next: its index and attributes
Person(person_index, trueSet) ==
    [person_index |-> person_index, attributes |-> Attributes(trueSet)]

\* what the source may answer to a decision that does not end the game:
\* a next candidate, no next candidate (with either status), or an error
EnvChoices(srv) ==
    LET persons == IF ~srv.scripted THEN srv.kinds
                   ELSE IF srv.served < Len(srv.script) THEN {srv.script[srv.served + 1]}
                   ELSE {}
        ends == IF srv.scripted /\ persons # {} THEN {} ELSE srv.end_statuses
    IN {[kind |-> "person", trueSet |-> t, status |-> "running"] : t \in persons}
       \cup {[kind |-> "end", trueSet |-> {}, status |-> st] : st \in ends}
       \cup (IF srv.faults_left > 0
             THEN {[kind |-> "error", trueSet |-> {}, status |-> "running"]}
             ELSE {})

\* the source after /new-game
ServerNewGame(srv) ==
    [srv EXCEPT !.admitted = 0, !.rejected = 0, !.status = "running",
                !.served = 0, !.next_person = None,
                !.log = IF srv.logging THEN <<>> ELSE @]

\* the source after a request that raised
ServerFault(srv) == [srv EXCEPT !.faults_left = @ - 1]

\* the source after /decide-and-next; accept is the request's accept
\* parameter ("true", "false") or "absent" for the first candidate
ServerDecide(srv, accept, choice) ==
    LET admitted == srv.admitted + (IF accept = "true" THEN 1 ELSE 0)
        rejected == srv.rejected + (IF accept = "false" THEN 1 ELSE 0)
        status == IF admitted >= srv.capacity THEN "completed"
                  ELSE IF rejected >= srv.budget THEN "failed"
                  ELSE choice.status
        serves == status = "running" /\ choice.kind = "person"
    IN [srv EXCEPT !.admitted = admitted, !.rejected = rejected, !.status = status,
                   !.next_person = IF serves THEN Person(srv.served, choice.trueSet) ELSE None,
                   !.served = IF serves THEN @ + 1 ELSE @,
                   !.log = IF serves /\ srv.logging THEN Append(@, choice.trueSet) ELSE @]

\* BerghainAPI.new_game: the GameState parsed from the /new-game answer
new_game(srv) ==
    [game_id |-> srv.game_id,
     status |-> "running",
     admitted_count |-> 0,
     rejected_count |-> 0,
     next_person |-> None,
     constraints |-> srv.constraints,
     attribute_statistics |-> srv.statistics]

\* BerghainAPI.decide_and_next: the GameState parsed from the answer of the
\* source, srv being the source after the request
decide_and_next(game_id, srv) ==
    [game_id |-> game_id,
     status |-> srv.status,
     admitted_count |-> srv.admitted,
     rejected_count |-> srv.rejected,
     next_person |-> srv.next_person,
     constraints |-> <<>>,
     attribute_statistics |-> [relative_frequencies |-> EmptyDict, correlations |-> EmptyDict]]

(***************************************************************************)
(* GameRunner (game_runner.py).                                            *)
(***************************************************************************)
\* GameRunner.reset: the fields of a fresh runner
reset ==
    [game_state |-> None,
     initial_game_info |-> None,
     people_history |-> <<>>,
     current_stats |-> [attribute_counts |-> EmptyDict,
                        admitted_people |-> <<>>,
                        rejected_people |-> <<>>,
                        steps_taken |-> 0],
     game_started |-> FALSE,
     game_completed |-> FALSE]

\* start_game: attribute_counts[constraint.attribute] = 0 for constraints[1..k]
RECURSIVE InitAttributeCounts(_, _)
InitAttributeCounts(constraints, k) ==
    IF k = 0 THEN EmptyDict
    ELSE Put(InitAttributeCounts(constraints, k - 1), constraints[k].attribute, 0)

\* the PersonRecord step() builds (its timestamp is left out)
PersonRecord(person, decision, game_state) ==
    [person_index |-> person.person_index,
     attributes |-> person.attributes,
     decision |-> decision,
     admitted_count_before |-> game_state.admitted_count,
     rejected_count_before |-> game_state.rejected_count,
     admitted_count_after |-> game_state.admitted_count + (IF decision THEN 1 ELSE 0),
     rejected_count_after |-> game_state.rejected_count + (IF decision THEN 0 ELSE 1)]

\* UpdateStatistics with the attribute counts raised outside the admit branch
UpdateStatistics_CountAlways(current_stats, person, decision) ==
    [current_stats EXCEPT
        !.admitted_people = IF decision THEN Append(@, person.attributes) ELSE @,
        !.rejected_people = IF decision THEN @ ELSE Append(@, person.attributes),
        !.attribute_counts =
            [attr \in DOMAIN @ |->
                IF attr \in DOMAIN person.attributes /\ person.attributes[attr]
                THEN @[attr] + 1 ELSE @[attr]]]

\* UpdateStatistics counting every true attribute of an admitted candidate
UpdateStatistics_CreatesCounts(current_stats, person, decision) ==
    IF decision
    THEN [current_stats EXCEPT
            !.admitted_people = Append(@, person.attributes),
            !.attribute_counts =
                [attr \in DOMAIN @ \cup {a \in DOMAIN person.attributes : person.attributes[a]} |->
                    Get(@, attr, 0) + (IF person.attributes[attr] THEN 1 ELSE 0)]]
    ELSE [current_stats EXCEPT !.rejected_people = Append(@, person.attributes)]

\* step(): "Update statistics", the tracker after one decision
UpdateStatistics(current_stats, person, decision) ==
    IF decision
    THEN [current_stats EXCEPT
            !.admitted_people = Append(@, person.attributes),
            !.attribute_counts =
                [attr \in DOMAIN @ |->
                    IF attr \in DOMAIN person.attributes /\ person.attributes[attr]
                    THEN @[attr] + 1 ELSE @[attr]]]
    ELSE [current_stats EXCEPT !.rejected_people = Append(@, person.attributes)]

\* step(): whether the loop ends the game before deciding
GameEnded(game_state) ==
    game_state.next_person = None \/ game_state.status # "running"

\* RecordDecision with the record put in front of the history
RecordDecision_Prepend(rn, person, decision) ==
    [rn EXCEPT !.people_history = <<PersonRecord(person, decision, rn.game_state)>> \o @,
               !.current_stats = UpdateStatistics(@, person, decision)]

\* step(): the runner after the decision is recorded and before it is sent
RecordDecision(rn, person, decision) ==
    [rn EXCEPT !.people_history = Append(@, PersonRecord(person, decision, rn.game_state)),
               !.current_stats = UpdateStatistics(@, person, decision)]

\* AfterSubmit with the test of the new status inverted
AfterSubmit_Inverted(rn, new_state) ==
    [rn EXCEPT !.game_state = new_state,
               !.current_stats.steps_taken = @ + 1,
               !.game_completed = IF new_state.status = "running" THEN TRUE ELSE @]

\* step(): the runner after decide_and_next returned new_state
AfterSubmit(rn, new_state) ==
    [rn EXCEPT !.game_state = new_state,
               !.current_stats.steps_taken = @ + 1,
               !.game_completed = IF new_state.status # "running" THEN TRUE ELSE @]

\* get_admitted_people / get_rejected_people
get_admitted_people(rn) == SelectSeq(rn.people_history, LAMBDA rec : rec.decision)
get_rejected_people(rn) == SelectSeq(rn.people_history, LAMBDA rec : ~rec.decision)

\* get_game_summary (strategy name, current_stats and people_history left out)
get_game_summary(rn) ==
    IF rn.game_state = None THEN EmptyDict
    ELSE [game_id |-> rn.game_state.game_id,
          status |-> rn.game_state.status,
          steps_taken |-> rn.current_stats.steps_taken,
          admitted_count |-> Len(get_admitted_people(rn)),
          rejected_count |-> Len(get_rejected_people(rn)),
          total_seen |-> Len(rn.people_history),
          success |-> rn.game_state.status = "completed"
                      /\ Len(get_admitted_people(rn)) = 1000,
          constraints |->
              [i \in 1..(IF rn.initial_game_info = None THEN 0
                         ELSE Len(rn.initial_game_info.constraints)) |->
                  LET c == rn.initial_game_info.constraints[i]
                      actual == Get(rn.current_stats.attribute_counts, c.attribute, 0)
                  IN [attribute |-> c.attribute, required |-> c.min_count,
                      actual |-> actual, satisfied |-> actual >= c.min_count]]]

(***************************************************************************)
(* The state machine.  strategy and runner are the two objects, server is  *)
(* the candidate source, rng the process-wide random module; loop_left is  *)
(* the number of iterations the running step() call still has to make (0   *)
(* when no call is running), step_records its local list, and raised says  *)
(* whether the last call ended by an exception reaching the caller; calls  *)
(* lists the calls made on the strategy's methods outside a session.       *)
(***************************************************************************)
\* the values random.random() is taken to return: below every acceptance
\* rate, between the rates 0.2 and 0.3, and above every rate
DrawSet == {Int2R(0), R(1, 4), R(999, 1000)}

\* NextDraws of a generator that takes no seed
NextDraws_Unseeded(g) == DrawSet

\* the values the next call of random.random() can return
NextDraws(g) ==
    IF g.seeded /\ g.pos < Len(g.seq) THEN {g.seq[g.pos + 1]} ELSE DrawSet

\* the random module after random.random() returned draw
AfterDraw(g, draw) ==
    IF ~g.seeded THEN g
    ELSE [g EXCEPT !.pos = @ + 1,
                   !.seq = IF g.pos < Len(g.seq) THEN @ ELSE Append(@, draw)]

\* the quotas and statistics of scenario 1 as the source publishes them
Scenario1Game ==
    [constraints |-> <<[attribute |-> "A", min_count |-> 600],
                       [attribute |-> "B", min_count |-> 600]>>,
     statistics |-> [relative_frequencies |-> [a \in {"A", "B"} |-> R(3, 10)],
                     correlations |-> [a \in {"A", "B"} |->
                                          [b \in {"A", "B"} |->
                                              IF a = b THEN Int2R(1) ELSE R(2, 10)]]]]

\* the game of the end-to-end scenario: one quota, X at least 5, frequency 0.5
SingleQuotaGame ==
    [constraints |-> <<[attribute |-> "X", min_count |-> 5]>>,
     statistics |-> [relative_frequencies |-> [a \in {"X"} |-> R(1, 2)],
                     correlations |-> EmptyDict]]

\* a candidate source of the given capacity, rejection budget and game
Server(capacity, budget, game, kinds, faults) ==
    [capacity |-> capacity, budget |-> budget,
     constraints |-> game.constraints, statistics |-> game.statistics,
     kinds |-> kinds, end_statuses |-> {"running", "failed"},
     scripted |-> FALSE, script |-> <<>>, logging |-> FALSE, log |-> <<>>,
     faults_left |-> faults,
     game_id |-> "game", admitted |-> 0, rejected |-> 0, status |-> "running",
     served |-> 0, next_person |-> None]

\* the attribute combinations the source of Spec serves
SessionKinds == {{}, {"A"}, {"N"}}

\* a second session of the same process before it is started: its own
\* strategy, runner and candidate source, a source of candidates without
\* attributes
PeerInit ==
    [strategy |-> Scenario1Strategy_init(R(20, 100), R(2, 100), R(1, 10)),
     runner |-> reset,
     server |-> Server(ServerCapacity, ServerRejections, Scenario1Game, {{}}, 0)]

Init ==
    /\ strategy = Scenario1Strategy_init(R(20, 100), R(2, 100), R(1, 10))
    /\ runner = reset
    /\ server = Server(ServerCapacity, ServerRejections, Scenario1Game, SessionKinds, MaxFaults)
    /\ rng = [seeded |-> FALSE, seq |-> <<>>, pos |-> 0]
    /\ loop_left = 0
    /\ step_records = <<>>
    /\ raised = FALSE
    /\ tape = <<>>
    /\ peer = PeerInit
    /\ calls = <<>>

\* GameRunner.start_game
start_game ==
    /\ loop_left = 0
    /\ \E new_game_raises \in (IF server.faults_left > 0 THEN BOOLEAN ELSE {FALSE}) :
          IF new_game_raises
          THEN /\ runner' = reset
               /\ server' = ServerFault(server)
               /\ raised' = TRUE
               /\ UNCHANGED strategy
          ELSE \E choice \in EnvChoices(ServerNewGame(server)) :
                  LET info == new_game(server)
                      srv1 == ServerNewGame(server)
                      srv2 == ServerDecide(srv1, "absent", choice)
                      started ==
                          [reset EXCEPT
                              !.initial_game_info = info,
                              !.game_state = info,
                              !.current_stats.attribute_counts =
                                  InitAttributeCounts(info.constraints, Len(info.constraints))]
                  IN /\ strategy' = on_game_start(strategy, info)
                     /\ IF choice.kind = "error"
                        THEN /\ runner' = started
                             /\ server' = ServerFault(srv1)
                             /\ raised' = TRUE
                        ELSE /\ runner' = [started EXCEPT
                                             !.game_state = decide_and_next(info.game_id, srv2),
                                             !.game_started = TRUE]
                             /\ server' = srv2
                             /\ raised' = FALSE
    /\ step_records' = <<>>
    /\ UNCHANGED <<loop_left, tape, peer, calls>>

\* a call of start_game
StartGame == start_game /\ UNCHANGED rng

\* StepEnter without the test of game_completed
StepEnter_IgnoresCompleted ==
    /\ loop_left = 0
    /\ runner # reset
    /\ \E num_steps \in 1..MaxNumSteps :
          loop_left' = IF ~runner.game_started THEN 0 ELSE num_steps
    /\ step_records' = <<>>
    /\ raised' = FALSE
    /\ UNCHANGED <<strategy, runner, server, rng, tape, peer, calls>>

\* GameRunner.step(num_steps): the entry test, before the loop
StepEnter ==
    /\ loop_left = 0
    /\ runner # reset
    /\ \E num_steps \in 1..MaxNumSteps :
          loop_left' = IF ~runner.game_started \/ runner.game_completed THEN 0 ELSE num_steps
    /\ step_records' = <<>>
    /\ raised' = FALSE
    /\ UNCHANGED <<strategy, runner, server, rng, tape, peer, calls>>

\* GameRunner.step: one iteration of the loop, one decision cycle
StepIter ==
    /\ loop_left > 0
    /\ IF GameEnded(runner.game_state)
       THEN /\ runner' = [runner EXCEPT !.game_completed = TRUE]
            /\ loop_left' = 0
            /\ UNCHANGED <<strategy, server, rng, step_records, raised>>
       ELSE LET person == runner.game_state.next_person
                draws == DrawsRandom(strategy, person, runner.game_state, runner.current_stats)
            IN \E draw \in (IF draws THEN NextDraws(rng) ELSE {Int2R(0)}) :
                  LET decision == decide(strategy, person, runner.game_state,
                                         runner.current_stats, draw)
                      recorded == RecordDecision(runner, person, decision)
                  IN /\ strategy' = decide_self(strategy, person, runner.game_state,
                                                runner.current_stats)
                     /\ rng' = IF draws THEN AfterDraw(rng, draw) ELSE rng
                     /\ step_records' = Append(step_records,
                                               PersonRecord(person, decision, runner.game_state))
                     /\ \E choice \in EnvChoices(server) :
                           IF choice.kind = "error"
                           THEN /\ runner' = recorded
                                /\ server' = ServerFault(server)
                                /\ raised' = TRUE
                                /\ loop_left' = 0
                           ELSE LET srv2 == ServerDecide(server,
                                                         IF decision THEN "true" ELSE "false",
                                                         choice)
                                    new_state == decide_and_next(runner.game_state.game_id, srv2)
                                IN /\ runner' = AfterSubmit(recorded, new_state)
                                   /\ server' = srv2
                                   /\ raised' = FALSE
                                   /\ loop_left' = IF new_state.status # "running" THEN 0
                                                   ELSE loop_left - 1
    /\ UNCHANGED <<tape, peer, calls>>

Next == StartGame \/ StepEnter \/ StepIter

Spec == Init /\ [][Next]_vars

\* the end-to-end scenario: 20 candidates, alternately with X and without
AlternatingStream == [i \in 1..20 |-> IF i % 2 = 1 THEN {"X"} ELSE {}]

\* the end-to-end scenario: capacity 10, rejection budget 100, no errors
InitScenario ==
    /\ strategy = Scenario1Strategy_init(R(20, 100), R(2, 100), R(1, 10))
    /\ runner = reset
    /\ server = [Server(10, 100, SingleQuotaGame, {}, 0) EXCEPT
                    !.scripted = TRUE, !.script = AlternatingStream]
    /\ rng = [seeded |-> FALSE, seq |-> <<>>, pos |-> 0]
    /\ loop_left = 0
    /\ step_records = <<>>
    /\ raised = FALSE
    /\ tape = <<>>
    /\ peer = PeerInit
    /\ calls = <<>>

SpecScenario == InitScenario /\ [][Next]_vars

\* the attribute combinations the source of SpecReplay serves
ReplayKinds == {{}, {"A"}}

\* a session under a seeded random module, the source keeping the sequence
\* of the candidates it serves
InitReplay ==
    /\ strategy = Scenario1Strategy_init(R(20, 100), R(2, 100), R(1, 10))
    /\ runner = reset
    /\ server = [Server(ServerCapacity, ServerRejections, Scenario1Game, ReplayKinds, 0)
                    EXCEPT !.logging = TRUE]
    /\ rng = [seeded |-> TRUE, seq |-> <<>>, pos |-> 0]
    /\ loop_left = 0
    /\ step_records = <<>>
    /\ raised = FALSE
    /\ tape = <<>>
    /\ peer = PeerInit
    /\ calls = <<>>

\* random.seed(seed) followed by start_game
SeededStart == start_game /\ rng' = [rng EXCEPT !.pos = 0]

\* a second session is constructed: a new strategy and a new runner, the
\* source set to serve the candidate sequence of the session just played;
\* tape keeps that session's decisions
Replay ==
    /\ loop_left = 0
    /\ ~server.scripted
    /\ runner.game_started
    /\ tape' = runner.people_history
    /\ strategy' = Scenario1Strategy_init(R(20, 100), R(2, 100), R(1, 10))
    /\ runner' = reset
    /\ server' = [server EXCEPT !.scripted = TRUE, !.script = server.log,
                                !.logging = FALSE]
    /\ step_records' = <<>>
    /\ raised' = FALSE
    /\ UNCHANGED <<rng, loop_left, peer, calls>>

NextReplay == SeededStart \/ StepEnter \/ StepIter \/ Replay

SpecReplay == InitReplay /\ [][NextReplay]_vars

\* start_game called on a runner that has not started a game
FirstStart == runner.game_state = None /\ StartGame

NextSession == FirstStart \/ StepEnter \/ StepIter

\* the loop of step() makes an iteration: what every StepIter step does to
\* loop_left, and possible exactly when StepIter is
LoopAdvances == loop_left > 0 /\ loop_left' \in 0..(loop_left - 1)

\* one session, step() being called again and again and its loop not halting
\* between two iterations
SpecSession ==
    Init /\ [][NextSession]_vars /\ WF_vars(StepEnter) /\ WF_loop_left(LoopAdvances)

\* a game with a quota on B, an attribute the statistics do not list
UnknownQuotaGame ==
    [constraints |-> <<[attribute |-> "A", min_count |-> 600],
                       [attribute |-> "B", min_count |-> 600]>>,
     statistics |-> [relative_frequencies |-> [a \in {"A"} |-> R(3, 10)],
                     correlations |-> [a \in {"A"} |-> [b \in {"A"} |-> Int2R(1)]]]]

\* the strategies Scenario1Strategy(...) constructs from the defaults, 1.5 as
\* initial_tolerance, -0.1 as final_tolerance and 1.5 as strictness_start
ConfiguredStrategies ==
    {Scenario1Strategy_init(initial_tolerance, final_tolerance, strictness_start) :
        initial_tolerance \in {R(20, 100), R(3, 2)},
        final_tolerance \in {R(2, 100), R(0 - 1, 10)},
        strictness_start \in {R(1, 10), R(3, 2)}}

\* sessions created from any of the configurations
InitConfig ==
    /\ strategy \in ConfiguredStrategies
    /\ runner = reset
    /\ server \in {Server(ServerCapacity, ServerRejections, game, SessionKinds, 0) :
                      game \in {Scenario1Game, UnknownQuotaGame}}
    /\ rng = [seeded |-> FALSE, seq |-> <<>>, pos |-> 0]
    /\ loop_left = 0
    /\ step_records = <<>>
    /\ raised = FALSE
    /\ tape = <<>>
    /\ peer = PeerInit
    /\ calls = <<>>

SpecConfig == InitConfig /\ [][Next]_vars

\* a game with one low quota: B at least 80
LowQuotaGame ==
    [constraints |-> <<[attribute |-> "B", min_count |-> 80]>>,
     statistics |-> [relative_frequencies |-> [a \in {"B"} |-> R(3, 10)],
                     correlations |-> EmptyDict]]

\* the attribute combinations the source of SpecLate serves
LateKinds == {{}, {"N"}, {"B"}}

\* the source and the session after the first k candidates, each carrying only
\* the non-quota attribute N, were served, admitted and submitted: decide()
\* admits the first to get started and every later one because the quota on B
\* (target share 0.08) rejects neither by its over- nor by its
\* under-representation test
LateServer(k) ==
    [Server(1000, ServerRejections, LowQuotaGame, LateKinds, MaxFaults) EXCEPT
        !.admitted = k, !.served = k + 1, !.next_person = Person(k, {"N"})]

LateRunner(k) ==
    LET info == new_game(LateServer(k))
    IN [game_state |-> decide_and_next(info.game_id, LateServer(k)),
        initial_game_info |-> info,
        people_history |->
            [i \in 1..k |->
                PersonRecord(Person(i - 1, {"N"}), TRUE,
                             [admitted_count |-> i - 1, rejected_count |-> 0])],
        current_stats |-> [attribute_counts |->
                               InitAttributeCounts(info.constraints, Len(info.constraints)),
                           admitted_people |-> [i \in 1..k |-> Attributes({"N"})],
                           rejected_people |-> <<>>,
                           steps_taken |-> k],
        game_started |-> TRUE,
        game_completed |-> FALSE]

\* a session three admissions before the capacity of 1000
InitLate ==
    /\ strategy = on_game_start(Scenario1Strategy_init(R(20, 100), R(2, 100), R(1, 10)),
                                new_game(LateServer(997)))
    /\ runner = LateRunner(997)
    /\ server = LateServer(997)
    /\ rng = [seeded |-> FALSE, seq |-> <<>>, pos |-> 0]
    /\ loop_left = 0
    /\ step_records = <<>>
    /\ raised = FALSE
    /\ tape = <<>>
    /\ peer = PeerInit
    /\ calls = <<>>

NextLate == StepEnter \/ StepIter

SpecLate == InitLate /\ [][NextLate]_vars

\* run_single_experiment in a second thread, next to the replayed session:
\* start_game on the thread's own runner
PeerStart ==
    /\ server.scripted
    /\ peer.runner = reset
    /\ \E choice \in EnvChoices(ServerNewGame(peer.server)) :
          LET info == new_game(peer.server)
              srv2 == ServerDecide(ServerNewGame(peer.server), "absent", choice)
          IN peer' = [strategy |-> on_game_start(peer.strategy, info),
                      runner |-> [reset EXCEPT
                                     !.initial_game_info = info,
                                     !.game_state = decide_and_next(info.game_id, srv2),
                                     !.current_stats.attribute_counts =
                                         InitAttributeCounts(info.constraints,
                                                             Len(info.constraints)),
                                     !.game_started = TRUE],
                      server |-> srv2]
    /\ UNCHANGED <<strategy, runner, server, rng, loop_left, step_records, raised, tape,
                   calls>>

\* the second thread's step(1): one decision cycle of its session, its draw
\* taken from the random module of the process
PeerIter ==
    /\ peer.runner.game_started
    /\ ~peer.runner.game_completed
    /\ IF GameEnded(peer.runner.game_state)
       THEN /\ peer' = [peer EXCEPT !.runner.game_completed = TRUE]
            /\ UNCHANGED rng
       ELSE LET person == peer.runner.game_state.next_person
                draws == DrawsRandom(peer.strategy, person, peer.runner.game_state,
                                     peer.runner.current_stats)
            IN \E draw \in (IF draws THEN NextDraws(rng) ELSE {Int2R(0)}) :
                  LET decision == decide(peer.strategy, person, peer.runner.game_state,
                                         peer.runner.current_stats, draw)
                      recorded == RecordDecision(peer.runner, person, decision)
                  IN /\ rng' = IF draws THEN AfterDraw(rng, draw) ELSE rng
                     /\ \E choice \in EnvChoices(peer.server) :
                           LET srv2 == ServerDecide(peer.server,
                                                    IF decision THEN "true" ELSE "false",
                                                    choice)
                               new_state == decide_and_next(peer.runner.game_state.game_id,
                                                            srv2)
                           IN peer' = [strategy |-> decide_self(peer.strategy, person,
                                                                peer.runner.game_state,
                                                                peer.runner.current_stats),
                                       runner |-> AfterSubmit(recorded, new_state),
                                       server |-> srv2]
    /\ UNCHANGED <<strategy, runner, server, loop_left, step_records, raised, tape, calls>>

NextThreads == SeededStart \/ StepEnter \/ StepIter \/ Replay \/ PeerStart \/ PeerIter

\* a session played alone and then played again, with the same seed and the
\* same candidates, while a second session runs in another thread
SpecThreads == InitReplay /\ [][NextThreads]_vars

\* the strategies whose tolerance schedule is evaluated: tolerances -0.1,
\* 0.02 and 0.2, strictness_start 0, 0.1, 0.95, 1 and 1.5
ToleranceStrategies ==
    {Scenario1Strategy_init(initial_tolerance, final_tolerance, strictness_start) :
        initial_tolerance \in {R(0 - 1, 10), R(2, 100), R(20, 100)},
        final_tolerance \in {R(0 - 1, 10), R(2, 100), R(20, 100)},
        strictness_start \in {Int2R(0), R(1, 10), R(95, 100), Int2R(1), R(3, 2)}}

InitTolerance ==
    /\ strategy \in ToleranceStrategies
    /\ runner = reset
    /\ server = Server(ServerCapacity, ServerRejections, Scenario1Game, SessionKinds, 0)
    /\ rng = [seeded |-> FALSE, seq |-> <<>>, pos |-> 0]
    /\ loop_left = 0
    /\ step_records = <<>>
    /\ raised = FALSE
    /\ tape = <<>>
    /\ peer = PeerInit
    /\ calls = <<>>

\* strategy._calculate_current_tolerance(admitted_count): the first call with
\* any count of 0..1000, each later call with the count raised by one
CallTolerance ==
    /\ Len(calls) < MaxCalls
    /\ \E admitted_count \in (IF calls = <<>> THEN 0..1000
                              ELSE {calls[Len(calls)].admitted_count + 1} \cap 0..1000) :
          calls' = Append(calls,
                          [admitted_count |-> admitted_count,
                           result |-> _calculate_current_tolerance(strategy, admitted_count)])
    /\ UNCHANGED <<strategy, runner, server, rng, loop_left, step_records, raised, tape, peer>>

NextTolerance == CallTolerance

SpecTolerance == InitTolerance /\ [][NextTolerance]_vars

\* a game with the quotas A and B, the frequencies fA and fB and the
\* correlation corr between A and B
TwoQuotaGame(fA, fB, corr) ==
    [constraints |-> <<[attribute |-> "A", min_count |-> 600],
                       [attribute |-> "B", min_count |-> 600]>>,
     statistics |-> [relative_frequencies |-> [a \in {"A", "B"} |->
                                                  IF a = "A" THEN fA ELSE fB],
                     correlations |-> [a \in {"A", "B"} |->
                                          [b \in {"A", "B"} |->
                                              IF a = b THEN Int2R(1) ELSE corr]]]]

\* the frequencies and correlations of the two-quota games
Frequencies == {Int2R(0), R(1, 20), R(1, 10), R(3, 10), R(1, 2), R(7, 10), Int2R(1)}
Correlations == {Int2R(0 - 1), R(0 - 1, 2), Int2R(0), R(1, 5), R(1, 2), Int2R(1)}

\* a strategy after on_game_start of any two-quota game
InitTarget ==
    /\ \E fA \in Frequencies, fB \in Frequencies, corr \in Correlations :
          /\ server = Server(ServerCapacity, ServerRejections,
                             TwoQuotaGame(fA, fB, corr), SessionKinds, 0)
          /\ strategy = on_game_start(
                            Scenario1Strategy_init(R(20, 100), R(2, 100), R(1, 10)),
                            new_game(Server(ServerCapacity, ServerRejections,
                                            TwoQuotaGame(fA, fB, corr), SessionKinds, 0)))
    /\ runner = reset
    /\ rng = [seeded |-> FALSE, seq |-> <<>>, pos |-> 0]
    /\ loop_left = 0
    /\ step_records = <<>>
    /\ raised = FALSE
    /\ tape = <<>>
    /\ peer = PeerInit
    /\ calls = <<>>

\* strategy._calculate_no_attributes_target_with_statistics()
CallTarget ==
    /\ Len(calls) < MaxCalls
    /\ calls' = Append(calls,
                       [result |-> _calculate_no_attributes_target_with_statistics(strategy)])
    /\ UNCHANGED <<strategy, runner, server, rng, loop_left, step_records, raised, tape, peer>>

NextTarget == CallTarget

SpecTarget == InitTarget /\ [][NextTarget]_vars

\* a game with one quota, A at least 200, frequency 0.5
MidQuotaGame ==
    [constraints |-> <<[attribute |-> "A", min_count |-> 200]>>,
     statistics |-> [relative_frequencies |-> [a \in {"A"} |-> R(1, 2)],
                     correlations |-> EmptyDict]]

\* the games of the strategies decide() is called on
DecideGames == {Scenario1Game, LowQuotaGame, MidQuotaGame, UnknownQuotaGame}

\* the attribute combinations of the candidates decide() is called with
DecideKinds == {{}, {"A"}, {"B"}, {"N"}, {"A", "B"}}

\* the sequences of at most two attribute combinations
KindSeqs ==
    {<<>>} \cup {<<k>> : k \in DecideKinds}
           \cup {<<k1, k2>> : k1 \in DecideKinds, k2 \in DecideKinds}

\* the tracker of a started game after the candidates of kinds[1..n] were
\* admitted
RECURSIVE TrackerAfter(_, _, _)
TrackerAfter(constraints, kinds, n) ==
    IF n = 0
    THEN [reset.current_stats EXCEPT
             !.attribute_counts = InitAttributeCounts(constraints, Len(constraints))]
    ELSE UpdateStatistics(TrackerAfter(constraints, kinds, n - 1),
                          Person(n - 1, kinds[n]), TRUE)

\* a strategy after on_game_start of one of the games
InitDecide ==
    /\ \E game \in DecideGames :
          /\ server = Server(ServerCapacity, ServerRejections, game, SessionKinds, 0)
          /\ strategy = on_game_start(
                            Scenario1Strategy_init(R(20, 100), R(2, 100), R(1, 10)),
                            new_game(Server(ServerCapacity, ServerRejections, game,
                                            SessionKinds, 0)))
    /\ runner = reset
    /\ rng = [seeded |-> FALSE, seq |-> <<>>, pos |-> 0]
    /\ loop_left = 0
    /\ step_records = <<>>
    /\ raised = FALSE
    /\ tape = <<>>
    /\ peer = PeerInit
    /\ calls = <<>>

\* strategy.decide(person, game_state, current_stats) with any candidate, any
\* tracker of at most two admitted, the admitted count of the game state
\* being the tracker's or 999, 1000 or 1001, and any random draw
CallDecide ==
    /\ calls = <<>>
    /\ \E trueSet \in DecideKinds, kinds \in KindSeqs, draw \in DrawSet :
          \E admitted_count \in {Len(kinds), 999, 1000, 1001} :
              LET person == Person(Len(kinds), trueSet)
                  current_stats == TrackerAfter(strategy._constraints, kinds, Len(kinds))
                  game_state ==
                      [decide_and_next(server.game_id, server) EXCEPT
                          !.admitted_count = admitted_count, !.next_person = person]
              IN calls' = <<[person |-> person, game_state |-> game_state,
                             current_stats |-> current_stats, draw |-> draw,
                             result |-> decide(strategy, person, game_state,
                                               current_stats, draw)]>>
    /\ UNCHANGED <<strategy, runner, server, rng, loop_left, step_records, raised, tape, peer>>

NextDecide == CallDecide

SpecDecide == InitDecide /\ [][NextDecide]_vars

\* ConstraintAwareStrategy(safety_margin)
ConstraintAwareStrategy_init(safety_margin) == [safety_margin |-> safety_margin]

\* the for loop of ConstraintAwareStrategy.decide over constraints[i..]
RECURSIVE ConstraintAwareLoop(_, _, _, _, _, _)
ConstraintAwareLoop(self, constraints, person, remaining_spots, current_stats, i) ==
    IF i > Len(constraints) THEN TRUE
    ELSE LET attr == constraints[i].attribute
             scaled == RMul(Int2R(constraints[i].min_count),
                            RAdd(Int2R(1), self.safety_margin))
             target_count == scaled.n \div scaled.d
             still_needed == target_count - Get(current_stats.attribute_counts, attr, 0)
             has_attr == Get(person.attributes, attr, FALSE)
         IN IF has_attr /\ still_needed > 0 THEN TRUE
            ELSE IF RGt(Int2R(still_needed), RMul(Int2R(remaining_spots), R(8, 10)))
                    /\ ~has_attr
            THEN FALSE
            ELSE ConstraintAwareLoop(self, constraints, person, remaining_spots,
                                     current_stats, i + 1)

\* ConstraintAwareStrategy.decide(person, game_state, current_stats)
ConstraintAwareStrategy_decide(self, person, game_state, current_stats) ==
    IF game_state.admitted_count >= 1000 THEN FALSE
    ELSE IF game_state.constraints = <<>> THEN TRUE
    ELSE ConstraintAwareLoop(self, game_state.constraints, person,
                             1000 - game_state.admitted_count, current_stats, 1)

\* the call strategy.decide(*args) on a ConstraintAwareStrategy: the method
\* takes three positional arguments, any other number raises TypeError
ConstraintAwareStrategy_call(self, args) ==
    IF Len(args) # 3 THEN [raises |-> TRUE]
    ELSE [raises |-> FALSE,
          value |-> ConstraintAwareStrategy_decide(self, args[1], args[2], args[3])]

\* a game with a quota on A above 80% of the capacity
HighQuotaGame ==
    [constraints |-> <<[attribute |-> "A", min_count |-> 900]>>,
     statistics |-> [relative_frequencies |-> [a \in {"A"} |-> R(1, 2)],
                     correlations |-> [a \in {"A"} |-> [b \in {"A"} |-> Int2R(1)]]]]

\* a runner constructed with a ConstraintAwareStrategy, for one of the games
InitAware ==
    /\ \E safety_margin \in {Int2R(0), R(1, 10), R(1, 2)} :
          strategy = ConstraintAwareStrategy_init(safety_margin)
    /\ \E game \in {Scenario1Game, LowQuotaGame, HighQuotaGame} :
          server = Server(ServerCapacity, ServerRejections, game, SessionKinds, MaxFaults)
    /\ runner = reset
    /\ rng = [seeded |-> FALSE, seq |-> <<>>, pos |-> 0]
    /\ loop_left = 0
    /\ step_records = <<>>
    /\ raised = FALSE
    /\ tape = <<>>
    /\ peer = PeerInit
    /\ calls = <<>>

\* GameRunner.start_game with a strategy that inherits on_game_start, which
\* does nothing
AwareStart ==
    /\ loop_left = 0
    /\ \E new_game_raises \in (IF server.faults_left > 0 THEN BOOLEAN ELSE {FALSE}) :
          IF new_game_raises
          THEN /\ runner' = reset
               /\ server' = ServerFault(server)
               /\ raised' = TRUE
          ELSE \E choice \in EnvChoices(ServerNewGame(server)) :
                  LET info == new_game(server)
                      srv1 == ServerNewGame(server)
                      srv2 == ServerDecide(srv1, "absent", choice)
                      started ==
                          [reset EXCEPT
                              !.initial_game_info = info,
                              !.game_state = info,
                              !.current_stats.attribute_counts =
                                  InitAttributeCounts(info.constraints, Len(info.constraints))]
                  IN IF choice.kind = "error"
                     THEN /\ runner' = started
                          /\ server' = ServerFault(srv1)
                          /\ raised' = TRUE
                     ELSE /\ runner' = [started EXCEPT
                                          !.game_state = decide_and_next(info.game_id, srv2),
                                          !.game_started = TRUE]
                          /\ server' = srv2
                          /\ raised' = FALSE
    /\ step_records' = <<>>
    /\ UNCHANGED <<strategy, rng, loop_left, tape, peer, calls>>

\* GameRunner.step with a ConstraintAwareStrategy: one iteration of the loop;
\* decide is called with person, game_state, current_stats and show_progress
AwareStepIter ==
    /\ loop_left > 0
    /\ IF GameEnded(runner.game_state)
       THEN /\ runner' = [runner EXCEPT !.game_completed = TRUE]
            /\ loop_left' = 0
            /\ UNCHANGED <<server, step_records, raised>>
       ELSE LET person == runner.game_state.next_person
                called == ConstraintAwareStrategy_call(
                              strategy,
                              <<person, runner.game_state, runner.current_stats, FALSE>>)
            IN IF called.raises
               THEN /\ raised' = TRUE
                    /\ loop_left' = 0
                    /\ UNCHANGED <<runner, server, step_records>>
               ELSE LET recorded == RecordDecision(runner, person, called.value)
                    IN /\ step_records' = Append(step_records,
                                                 PersonRecord(person, called.value,
                                                              runner.game_state))
                       /\ \E choice \in EnvChoices(server) :
                             IF choice.kind = "error"
                             THEN /\ runner' = recorded
                                  /\ server' = ServerFault(server)
                                  /\ raised' = TRUE
                                  /\ loop_left' = 0
                             ELSE LET srv2 == ServerDecide(server,
                                                           IF called.value THEN "true"
                                                           ELSE "false",
                                                           choice)
                                      new_state == decide_and_next(runner.game_state.game_id,
                                                                   srv2)
                                  IN /\ runner' = AfterSubmit(recorded, new_state)
                                     /\ server' = srv2
                                     /\ raised' = FALSE
                                     /\ loop_left' = IF new_state.status # "running" THEN 0
                                                     ELSE loop_left - 1
    /\ UNCHANGED <<strategy, rng, tape, peer, calls>>

NextAware == AwareStart \/ StepEnter \/ AwareStepIter

SpecAware == InitAware /\ [][NextAware]_vars

\* the tolerance decide computes (line 280), None when decide returns before
DecideTolerance(self, person, game_state, current_stats) ==
    IF game_state.admitted_count >= 1000 THEN None
    ELSE IF NoTrueAttribute(person.attributes) THEN None
    ELSE IF Len(current_stats.admitted_people) = 0 THEN None
    ELSE IF DecideConstraints(self, game_state) = <<>> THEN None
    ELSE _calculate_current_tolerance(self, Len(current_stats.admitted_people))

\* the divisors, other than the literal 1000.0 and 1 - strictness_start, of
\* the divisions a call of decide evaluates: len(admitted_people) for the share
\* of the candidates without attributes (line 150) and for the share of a
\* constraint in the no-attribute path (line 209), total_admitted for the share
\* of a constraint in the loop (line 297)
FractionDivisors(self, person, game_state, current_stats) ==
    LET admitted_people == current_stats.admitted_people
        total_admitted == Len(admitted_people)
        no_attr_share == IF admitted_people # <<>> THEN {Len(admitted_people)} ELSE {}
        struggling ==
            IF ~NoAttrOverRepresented(self, current_stats)
               /\ self._constraints # <<>> /\ admitted_people # <<>>
            THEN {Len(admitted_people)}
            ELSE {}
        loop_share == IF total_admitted > 0 THEN {total_admitted} ELSE {}
    IN  IF game_state.admitted_count >= 1000 THEN {}
        ELSE IF NoTrueAttribute(person.attributes) THEN no_attr_share \cup struggling
        ELSE IF total_admitted = 0 THEN {}
        ELSE IF DecideConstraints(self, game_state) = <<>> THEN {}
        ELSE loop_share

\* the tracker of a started game after n candidates of one kind were admitted
UniformTracker(constraints, kind, n) ==
    [reset.current_stats EXCEPT
        !.admitted_people = [i \in 1..n |-> Attributes(kind)],
        !.attribute_counts =
            [attr \in DOMAIN InitAttributeCounts(constraints, Len(constraints)) |->
                IF attr \in kind THEN n ELSE 0],
        !.steps_taken = n]

\* the numbers of admitted candidates decide is called at: around the start,
\* strictness_start 0.1, the 0.95 of the schedule and the capacity
AdmittedCounts == {0, 1, 2, 99, 100, 101, 949, 950, 999, 1000}

\* a strategy of any strictness_start after on_game_start of a game
InitDivisions ==
    /\ \E game \in {Scenario1Game, LowQuotaGame},
          strictness_start \in {Int2R(0), R(1, 10), Int2R(1), R(3, 2)} :
          /\ server = Server(ServerCapacity, ServerRejections, game, SessionKinds, 0)
          /\ strategy = on_game_start(
                            Scenario1Strategy_init(R(20, 100), R(2, 100), strictness_start),
                            new_game(Server(ServerCapacity, ServerRejections, game,
                                            SessionKinds, 0)))
    /\ runner = reset
    /\ rng = [seeded |-> FALSE, seq |-> <<>>, pos |-> 0]
    /\ loop_left = 0
    /\ step_records = <<>>
    /\ raised = FALSE
    /\ tape = <<>>
    /\ peer = PeerInit
    /\ calls = <<>>

\* strategy.decide(person, game_state, current_stats) after n admissions of
\* candidates of one kind, the admitted count of the source n or 0; the call
\* is recorded with the tolerance and the divisors it evaluates
CallDivisions ==
    /\ calls = <<>>
    /\ \E trueSet \in DecideKinds, kind \in {{}, {"A"}, {"A", "B"}}, n \in AdmittedCounts :
          \E admitted_count \in {n, 0} :
              LET person == Person(n, trueSet)
                  current_stats == UniformTracker(strategy._constraints, kind, n)
                  game_state ==
                      [decide_and_next(server.game_id, server) EXCEPT
                          !.admitted_count = admitted_count, !.next_person = person]
              IN calls' = <<[person |-> person, admitted_count |-> admitted_count,
                             kind |-> kind, total_admitted |-> n,
                             tolerance |-> DecideTolerance(strategy, person, game_state,
                                                           current_stats),
                             divisors |-> FractionDivisors(strategy, person, game_state,
                                                           current_stats)]>>
    /\ UNCHANGED <<strategy, runner, server, rng, loop_left, step_records, raised, tape, peer>>

NextDivisions == CallDivisions

SpecDivisions == InitDivisions /\ [][NextDivisions]_vars

(***************************************************************************)
(* Properties.                                                             *)
(***************************************************************************)
\* the Quota Tracker of the session
Tracker == runner.current_stats
TotalAdmitted == Len(Tracker.admitted_people)
TotalRejected == Len(Tracker.rejected_people)

\* a decision cycle has run and the last one was not cut short by an error
AfterDecisionCycle == runner.people_history # <<>> /\ ~raised

\* C1: after every decision cycle the number of admitted candidates is at
\* most the capacity of the session and the number of rejected candidates is
\* at most its rejection budget.
C1_WithinCapacityAndBudget ==
    AfterDecisionCycle =>
        TotalAdmitted <= server.capacity /\ TotalRejected <= server.budget

\* C2: for every quota attribute the tracker's count of admitted candidates
\* with that attribute is at most the total number of admitted candidates.
C2_CountAtMostAdmitted ==
    \A attr \in DOMAIN Tracker.attribute_counts :
        Tracker.attribute_counts[attr] <= TotalAdmitted

\* C2 witness: two candidates are admitted, one of them with quota attribute A
C2_Witness ==
    /\ TotalAdmitted = 2
    /\ "A" \in DOMAIN Tracker.attribute_counts
    /\ Tracker.attribute_counts["A"] = 1

\* C3: every observed candidate is recorded exactly once: no person_index
\* appears twice in people_history, also when step() is called again after a
\* call that the candidate source interrupted by an error.
C3_RecordedOnce ==
    \A i, j \in 1..Len(runner.people_history) :
        i # j => runner.people_history[i].person_index # runner.people_history[j].person_index

\* C4: a decision cycle in which decide_and_next raises leaves the status
\* running and the Quota Tracker, the history and steps_taken as they were
\* before the cycle began.
C4_ErrorLeavesTrackerUnchanged ==
    [][(loop_left > 0 /\ raised')
          => /\ runner'.game_state.status = "running"
             /\ runner'.current_stats = runner.current_stats
             /\ runner'.people_history = runner.people_history]_vars

\* the first decision of the session, taken with nobody admitted
FirstDecision == runner.people_history[1]

\* C5 as stated: a first candidate with no attribute set to true is admitted
\* whatever the random draw.
C5_EmptyFirstCandidateAdmitted ==
    (runner.people_history # <<>> /\ NoTrueAttribute(FirstDecision.attributes))
        => FirstDecision.decision

\* C5 amended: a first candidate with at least one attribute set to true is
\* admitted, whatever the random draw.
C5_FirstCandidateWithAttributeAdmitted ==
    (runner.people_history # <<>> /\ ~NoTrueAttribute(FirstDecision.attributes))
        => FirstDecision.decision

\* C5 witness: the first candidate carries only N, lacks both quota
\* attributes, and is admitted by the bootstrap test
C5_Witness ==
    /\ runner.people_history # <<>>
    /\ FirstDecision.attributes = Attributes({"N"})
    /\ FirstDecision.decision
    /\ FirstDecision.person_index = 0

\* the number of admitted candidates with X among the first k decisions
RECURSIVE AdmittedWithX(_, _)
AdmittedWithX(history, k) ==
    IF k = 0 THEN 0
    ELSE AdmittedWithX(history, k - 1)
         + (IF history[k].decision /\ history[k].attributes["X"] THEN 1 ELSE 0)

BoundHitOrStreamEnded ==
    \/ server.admitted >= server.capacity
    \/ server.rejected >= server.budget
    \/ server.next_person = None

\* C8: a started session reaches game_completed when step() is called again
\* and again, after at most capacity + rejection budget completed decision
\* cycles, and game_completed is never true while capacity, rejection budget
\* and candidates all remain.
C8_Terminates ==
    /\ [](runner.game_completed => BoundHitOrStreamEnded)
    /\ [](runner.game_state # None =>
             runner.current_stats.steps_taken <= server.capacity + server.budget)
    /\ [](runner.game_state # None /\ ~runner.game_completed =>
             runner.current_stats.steps_taken < server.capacity + server.budget - 1)
    /\ (runner.game_started ~> runner.game_completed)

\* C8 witness: the session has ended on its last possible decision, the
\* rejection budget spent with one place left
C8_Witness ==
    /\ runner.game_completed
    /\ server.rejected = server.budget
    /\ server.admitted = server.capacity - 1
    /\ runner.current_stats.steps_taken = server.capacity + server.budget - 1

\* C9: once the stream has ended with capacity unmet, the status reported by
\* get_game_summary is the failed status.
C9_EndOfStreamFails ==
    (/\ runner.game_completed
     /\ runner.game_state.next_person = None
     /\ runner.game_state.admitted_count < server.capacity)
        => get_game_summary(runner).status = "failed"

\* a tolerance or strictness_start outside [0,1], or a quota on an attribute
\* the statistics do not list
InvalidConfiguration ==
    \/ \E x \in {strategy.initial_tolerance, strategy.final_tolerance,
                 strategy.strictness_start} :
          RLt(x, Int2R(0)) \/ RGt(x, Int2R(1))
    \/ \E i \in 1..Len(server.constraints) :
          server.constraints[i].attribute
              \notin DOMAIN server.statistics.relative_frequencies

\* C10: under an invalid configuration the session never starts and no
\* candidate is fetched or decided.
C10_InvalidConfigurationRejected ==
    InvalidConfiguration =>
        /\ ~runner.game_started
        /\ server.served = 0
        /\ runner.people_history = <<>>

\* C11: the summary reports a quota satisfied iff its count has reached its
\* minimum, and a session the source has completed at capacity is reported
\* as a success whether or not its quotas are satisfied.
C11_CompletedIsSuccess ==
    runner.game_state # None =>
        /\ \A i \in 1..Len(get_game_summary(runner).constraints) :
              LET q == get_game_summary(runner).constraints[i]
              IN q.satisfied <=> Get(Tracker.attribute_counts, q.attribute, 0) >= q.required
        /\ (runner.game_state.status = "completed" /\ server.admitted = 1000)
              => get_game_summary(runner).success

\* C12: a session that runs interleaved with a second session takes, on every
\* candidate, the decision it took when it ran alone on the same candidates
\* under the same seed.
C12_SessionsIsolated ==
    (server.scripted /\ peer.runner # reset) =>
        \A k \in 1..Len(runner.people_history) :
            (k <= Len(tape) /\ runner.people_history[k].attributes = tape[k].attributes)
                => runner.people_history[k].decision = tape[k].decision

\* C13: when the source has served candidate m, the decisions on all
\* candidates before m are in the history and in the tracker, and the history
\* lists the decisions in the order the candidates arrived.
C13_DecisionsSequential ==
    /\ Len(Tracker.admitted_people) + Len(Tracker.rejected_people)
          = Len(runner.people_history)
    /\ \A i, j \in 1..Len(runner.people_history) :
          i < j => runner.people_history[i].person_index
                      <= runner.people_history[j].person_index
    /\ (runner.game_state # None /\ runner.game_state.next_person # None) =>
          \A n \in 0..(runner.game_state.next_person.person_index - 1) :
              \E k \in 1..Len(runner.people_history) :
                  runner.people_history[k].person_index = n
    /\ runner.game_started => server.served <= Len(runner.people_history) + 1

\* C13 witness: candidate 1 was fetched after candidate 0 was decided, and
\* both decisions are recorded in that order
C13_Witness ==
    /\ Len(runner.people_history) = 2
    /\ runner.people_history[1].person_index = 0
    /\ runner.people_history[2].person_index = 1
    /\ runner.current_stats.steps_taken = 2
    /\ ~raised

\* the results of calls made with rising admitted counts do not rise
ResultsNonIncreasing ==
    \A i, j \in 1..Len(calls) :
        (i < j /\ calls[i].admitted_count <= calls[j].admitted_count)
            => RLe(calls[j].result, calls[i].result)

C15_ZeroFrom950 ==
    \A k \in 1..Len(calls) :
        calls[k].admitted_count >= 950 => calls[k].result = Int2R(0)

\* C15 witness: with strictness_start 1.5 the tolerance is initial_tolerance
\* at 949 admitted and 0 at 950
C15_Witness ==
    /\ strategy.strictness_start = R(3, 2)
    /\ strategy.initial_tolerance = R(20, 100)
    /\ Len(calls) = 2
    /\ calls[1].admitted_count = 949
    /\ calls[1].result = R(20, 100)
    /\ calls[2].admitted_count = 950
    /\ calls[2].result = Int2R(0)

\* C16: with initial_tolerance = final_tolerance = t and strictness_start = 0
\* the tolerance of every admitted count of 0..949 is exactly t.
C16_ConstantTolerance ==
    (strategy.initial_tolerance = strategy.final_tolerance
        /\ strategy.strictness_start = Int2R(0))
            => \A k \in 1..Len(calls) :
                   calls[k].admitted_count <= 949
                       => calls[k].result = strategy.initial_tolerance

\* C16 witness: t = 0.2, the tolerance at 948 and at 949 admitted is 0.2
C16_Witness ==
    /\ strategy = Scenario1Strategy_init(R(20, 100), R(20, 100), Int2R(0))
    /\ Len(calls) = 2
    /\ calls[1].admitted_count = 948
    /\ calls[2].admitted_count = 949
    /\ calls[2].result = R(20, 100)

\* 1 - (fA + fB - joint), joint = min(fA * fB * (1 + max(0, corr)), fA, fB),
\* clamped into [0.05, 0.8]
NeitherProbability(fA, fB, corr) ==
    LET product == RMul(RMul(fA, fB),
                        RAdd(Int2R(1), IF RGt(corr, Int2R(0)) THEN corr ELSE Int2R(0)))
        joint == IF RLe(product, fA) /\ RLe(product, fB) THEN product
                 ELSE IF RLe(fA, fB) THEN fA ELSE fB
        neither == RSub(Int2R(1), RSub(RAdd(fA, fB), joint))
    IN IF RLt(neither, R(5, 100)) THEN R(5, 100)
       ELSE IF RGt(neither, R(8, 10)) THEN R(8, 10)
       ELSE neither

\* C17: with two quotas A and B the estimated probability of a candidate with
\* neither attribute is NeitherProbability of the two frequencies and the
\* correlation of A with B; it is 0.25 for frequencies 0.5, 0.5 and correlation 0.
C17_NeitherProbability ==
    \A k \in 1..Len(calls) :
        /\ calls[k].result =
              NeitherProbability(strategy._relative_frequencies["A"],
                                 strategy._relative_frequencies["B"],
                                 strategy._correlations["A"]["B"])
        /\ (/\ strategy._relative_frequencies["A"] = R(1, 2)
            /\ strategy._relative_frequencies["B"] = R(1, 2)
            /\ strategy._correlations["A"]["B"] = Int2R(0))
               => calls[k].result = R(1, 4)

\* C17 witness: frequencies 0.5 and 0.5, correlation 0, and the estimate 0.25
C17_Witness ==
    /\ strategy._relative_frequencies["A"] = R(1, 2)
    /\ strategy._relative_frequencies["B"] = R(1, 2)
    /\ strategy._correlations["A"]["B"] = Int2R(0)
    /\ Len(calls) = 1
    /\ calls[1].result = R(1, 4)

\* C18: decide rejects every candidate when the admitted count of the game
\* state is 1000 or more, whatever the candidate, the tracker and the draw.
C18_CapacityGate ==
    \A k \in 1..Len(calls) :
        calls[k].game_state.admitted_count >= 1000 => ~calls[k].result

\* C18 witness: at 1000 admitted a candidate with both quota attributes is
\* rejected although the tracker is empty
C18_Witness ==
    /\ Len(calls) = 1
    /\ calls[1].game_state.admitted_count = 1000
    /\ calls[1].person.attributes = Attributes({"A", "B"})
    /\ calls[1].current_stats.admitted_people = <<>>
    /\ ~calls[1].result

\* the candidate has none of the quota attributes of the strategy as true
NoQuotaAttribute(self, person) ==
    \A i \in 1..Len(self._constraints) :
        ~Get(person.attributes, self._constraints[i].attribute, FALSE)

\* C19: a candidate with no quota attribute true, decided below capacity, gets
\* the result of the no-attribute sub-policy, also when a non-quota attribute
\* of it is true.
C19_EmptyCandidatePath ==
    \A k \in 1..Len(calls) :
        (NoQuotaAttribute(strategy, calls[k].person)
            /\ calls[k].game_state.admitted_count < 1000)
                => calls[k].result =
                       _decide_no_attributes_person(strategy,
                                                    calls[k].game_state.admitted_count,
                                                    calls[k].current_stats,
                                                    calls[k].draw)

\* the candidate has an attribute of some quota whose share of the admitted is
\* above its target share plus the tolerance
SomeQuotaOverRepresented(self, person, current_stats) ==
    \E i \in 1..Len(self._constraints) :
        LET attr == self._constraints[i].attribute
            total == Len(current_stats.admitted_people)
        IN /\ person.attributes[attr]
           /\ RGt(R(current_stats.attribute_counts[attr], total),
                  RAdd(R(self._constraints[i].min_count, 1000),
                       _calculate_current_tolerance(self, total)))

\* C20: a candidate with an attribute true, decided below capacity with at
\* least one admitted, is rejected when it has the attribute of a quota whose
\* share is above the target share plus the tolerance.
C20_OverRepresentedRejected ==
    \A k \in 1..Len(calls) :
        (/\ ~NoTrueAttribute(calls[k].person.attributes)
         /\ calls[k].game_state.admitted_count < 1000
         /\ Len(calls[k].current_stats.admitted_people) >= 1
         /\ SomeQuotaOverRepresented(strategy, calls[k].person, calls[k].current_stats))
            => ~calls[k].result

\* C20 witness: one candidate with B admitted, share of B 1 > 0.6 + 0.2; a
\* candidate with A and B passes the tests of quota A and is rejected by B's
C20_Witness ==
    /\ Len(strategy._constraints) = 2
    /\ Len(calls) = 1
    /\ calls[1].person.attributes = Attributes({"A", "B"})
    /\ calls[1].current_stats.admitted_people = <<Attributes({"B"})>>
    /\ calls[1].game_state.admitted_count = 1
    /\ ~calls[1].result

\* the statistics list a frequency for the attribute of every quota
FrequenciesKnown(self) ==
    \A i \in 1..Len(self._constraints) :
        self._constraints[i].attribute \in DOMAIN self._relative_frequencies

\* the candidate lacks the attribute of quota i, the share of the attribute is
\* below the target share - 0.08, and frequency * remaining capacity is below
\* 1.2 * (minimum - count)
QuotaUnderRepresented(self, i, frequency, person, current_stats) ==
    LET attr == self._constraints[i].attribute
        minimum == self._constraints[i].min_count
        total == Len(current_stats.admitted_people)
        count == current_stats.attribute_counts[attr]
    IN /\ ~person.attributes[attr]
       /\ RLt(R(count, total), RSub(R(minimum, 1000), R(8, 100)))
       /\ RLt(RMul(frequency, Int2R(1000 - total)),
              RMul(Int2R(minimum - count), R(12, 10)))

\* a non-empty candidate decided below capacity with at least one admitted
QuotaLoopCall(call) ==
    /\ ~NoTrueAttribute(call.person.attributes)
    /\ call.game_state.admitted_count < 1000
    /\ Len(call.current_stats.admitted_people) >= 1

\* C21: with the frequencies of the quota attributes known, a candidate that
\* reaches the quota tests is rejected when some quota is under-represented
\* for it, and admitted when no quota is over- or under-represented for it.
C21_UnderRepresentedRejected ==
    \A k \in 1..Len(calls) :
        (QuotaLoopCall(calls[k]) /\ FrequenciesKnown(strategy)) =>
            LET under ==
                    \E i \in 1..Len(strategy._constraints) :
                        QuotaUnderRepresented(
                            strategy, i,
                            strategy._relative_frequencies[strategy._constraints[i].attribute],
                            calls[k].person, calls[k].current_stats)
                over == SomeQuotaOverRepresented(strategy, calls[k].person,
                                                 calls[k].current_stats)
            IN /\ under => ~calls[k].result
               /\ (~under /\ ~over) => calls[k].result

\* C21 witness: quotas A and B at 600, one candidate with B admitted; a
\* candidate with B only lacks A, whose share 0 is under 0.52 and whose
\* expected yield 0.3 * 999 is under 720, and is rejected
C21_Witness ==
    /\ strategy._constraints = Scenario1Game.constraints
    /\ FrequenciesKnown(strategy)
    /\ Len(calls) = 1
    /\ calls[1].person.attributes = Attributes({"B"})
    /\ calls[1].current_stats.admitted_people = <<Attributes({"B"})>>
    /\ calls[1].game_state.admitted_count = 1
    /\ ~calls[1].result

\* C22: a candidate that reaches the quota tests and lacks the attribute of a
\* quota without a listed frequency is rejected when that quota is
\* under-represented for it at the frequency 0.5.
C22_DefaultFrequency ==
    \A k \in 1..Len(calls) :
        QuotaLoopCall(calls[k]) =>
            \A i \in 1..Len(strategy._constraints) :
                (/\ strategy._constraints[i].attribute
                        \notin DOMAIN strategy._relative_frequencies
                 /\ QuotaUnderRepresented(strategy, i, R(1, 2), calls[k].person,
                                          calls[k].current_stats))
                    => ~calls[k].result

\* the correlation tables a game may publish for the attributes A and B
CorrelationTables ==
    {EmptyDict} \cup
    {[a \in {"A", "B"} |-> [b \in {"A", "B"} |-> IF a = b THEN Int2R(1) ELSE corr]] :
        corr \in Correlations}

\* C23: for a candidate with an attribute true, decide returns the same
\* result whatever the pairwise correlations of the statistics are.
C23_CorrelationAdvisory ==
    \A k \in 1..Len(calls) :
        ~NoTrueAttribute(calls[k].person.attributes) =>
            \A table \in CorrelationTables :
                decide([strategy EXCEPT !._correlations = table], calls[k].person,
                       calls[k].game_state, calls[k].current_stats, calls[k].draw)
                    = calls[k].result

\* C23 witness: a candidate with A and B, attributes of correlation 0.2, is
\* rejected for B's share after passing the tests of A
C23_Witness ==
    /\ strategy._correlations = Scenario1Game.statistics.correlations
    /\ Len(calls) = 1
    /\ calls[1].person.attributes = Attributes({"A", "B"})
    /\ calls[1].current_stats.admitted_people = <<Attributes({"B"})>>
    /\ calls[1].game_state.admitted_count = 1
    /\ correlation_bonus(strategy, "A", calls[1].person) = R(2, 10)
    /\ ~calls[1].result

\* the share of the admitted candidates with none of the quota attributes true
EmptyShare(self, current_stats) ==
    LET admitted == current_stats.admitted_people
        empty == {i \in 1..Len(admitted) : NoQuotaAttribute(self, [attributes |-> admitted[i]])}
    IN IF Len(admitted) = 0 THEN Int2R(0) ELSE R(Cardinality(empty), Len(admitted))

\* C24: a candidate with none of the quota attributes true is rejected whenever
\* the share of such candidates among the admitted is above the statistical
\* target + 0.02, whatever the draw, the admitted count and the quota counts.
C24_HardCeiling ==
    \A k \in 1..Len(calls) :
        (/\ NoQuotaAttribute(strategy, calls[k].person)
         /\ RGt(EmptyShare(strategy, calls[k].current_stats),
                RAdd(_calculate_no_attributes_target_with_statistics(strategy), R(2, 100))))
            => ~calls[k].result

\* the ceiling for the candidates and the admitted that the code takes as
\* empty, those with no attribute at all true
HardCeilingNoAttribute ==
    \A k \in 1..Len(calls) :
        (/\ NoTrueAttribute(calls[k].person.attributes)
         /\ RGt(current_no_attr_percentage(calls[k].current_stats),
                RAdd(_calculate_no_attributes_target_with_statistics(strategy), R(2, 100))))
            => ~calls[k].result

\* C25: a recorded admit adds one admitted candidate and one to the count of
\* each quota attribute true on the candidate, a recorded reject adds one
\* rejected candidate and nothing else, and only quota attributes have counts.
C25_RecordFrame ==
    /\ [](runner.initial_game_info # None =>
             DOMAIN Tracker.attribute_counts =
                 {runner.initial_game_info.constraints[i].attribute :
                     i \in 1..Len(runner.initial_game_info.constraints)})
    /\ [][Len(runner'.people_history) = Len(runner.people_history) + 1 =>
            LET rec == runner'.people_history[Len(runner'.people_history)]
                before == runner.current_stats
                after == runner'.current_stats
            IN /\ DOMAIN after.attribute_counts = DOMAIN before.attribute_counts
               /\ IF rec.decision
                  THEN /\ Len(after.admitted_people) = Len(before.admitted_people) + 1
                       /\ after.rejected_people = before.rejected_people
                       /\ \A attr \in DOMAIN before.attribute_counts :
                             after.attribute_counts[attr] =
                                 before.attribute_counts[attr]
                                     + (IF rec.attributes[attr] THEN 1 ELSE 0)
                  ELSE /\ Len(after.rejected_people) = Len(before.rejected_people) + 1
                       /\ after.admitted_people = before.admitted_people
                       /\ after.attribute_counts = before.attribute_counts]_vars

\* C25 witness: a candidate with the non-quota attribute N is admitted and a
\* candidate with A is rejected; the quota counts are 0 and N has no count
C25_Witness ==
    /\ Tracker.admitted_people = <<Attributes({"N"})>>
    /\ Tracker.rejected_people = <<Attributes({"A"})>>
    /\ Tracker.attribute_counts = [a \in {"A", "B"} |-> 0]

\* the candidate lacks the attribute of a constraint whose still-needed count
\* is above 80% of the remaining spots, and has no still-needed attribute of
\* an earlier constraint
UrgentAttributeLacking(self, constraints, person, admitted_count, current_stats) ==
    LET still_needed(i) ==
            LET scaled == RMul(Int2R(constraints[i].min_count),
                               RAdd(Int2R(1), self.safety_margin))
            IN (scaled.n \div scaled.d)
                   - Get(current_stats.attribute_counts, constraints[i].attribute, 0)
        has(i) == Get(person.attributes, constraints[i].attribute, FALSE)
    IN \E i \in 1..Len(constraints) :
          /\ ~has(i)
          /\ 10 * still_needed(i) > 8 * (1000 - admitted_count)
          /\ \A j \in 1..(i - 1) : ~(has(j) /\ still_needed(j) > 0)

\* C26: an iteration of step() of a runner with a ConstraintAwareStrategy, on
\* a candidate that lacks an urgently needed constraint attribute, records a
\* reject for the candidate.
C26_ConstraintsConsidered ==
    [][(/\ loop_left > 0
        /\ ~GameEnded(runner.game_state)
        /\ UrgentAttributeLacking(strategy, runner.initial_game_info.constraints,
                                  runner.game_state.next_person,
                                  runner.game_state.admitted_count, runner.current_stats))
          => /\ Len(runner'.people_history) = Len(runner.people_history) + 1
             /\ ~runner'.people_history[Len(runner'.people_history)].decision]_vars

\* the attributes of the candidates of the running game: those the statistics
\* of the game list
GameAttributes == DOMAIN runner.initial_game_info.attribute_statistics.relative_frequencies

\* C27: in every state of a started session with capacity remaining, some
\* attribute combination of a candidate is admitted by decide for some value
\* of the random draw (0.0, the lowest, when any is).
C27_NoAdmissionDeadlock ==
    (/\ runner.game_started
     /\ runner.game_state.status = "running"
     /\ runner.game_state.admitted_count < server.capacity)
        => \E trueSet \in SUBSET GameAttributes :
              decide(strategy, Person(0, trueSet), runner.game_state,
                     runner.current_stats, Int2R(0))

\* C28: once game_completed is true, a step() call returns the empty list
\* without entering its loop, so without a decision or a submission, and
\* leaves the strategy, the tracker, the history, the status and the candidate
\* source as they are; only start_game changes the session.
C28_TerminalAbsorbing ==
    [][runner.game_completed =>
          \/ /\ loop_left' = 0
             /\ step_records' = <<>>
             /\ UNCHANGED <<strategy, runner, server, rng>>
          \/ StartGame]_vars

\* C28 witness: the session is completed with the capacity filled, and a later
\* step() call has returned the empty list
C28_Witness ==
    /\ runner.game_completed
    /\ runner.game_state.status = "completed"
    /\ TotalAdmitted >= ServerCapacity
    /\ loop_left = 0
    /\ step_records = <<>>

\* C29: no call of decide divides by zero: the tolerance it computes is not
\* the outcome of a division by 1 - strictness_start = 0, and no fraction over
\* the number of admitted candidates is computed with that number 0.
C29_NoDivisionByZero ==
    \A k \in 1..Len(calls) :
        /\ calls[k].tolerance # ZeroDivisionError
        /\ 0 \notin calls[k].divisors

\* C29 witness: strictness_start is 1.0 and decide, called for a candidate with
\* A after 949 admissions, computes the tolerance 0.2 and a share over 949
C29_Witness ==
    /\ strategy.strictness_start = Int2R(1)
    /\ Len(calls) = 1
    /\ calls[1].person.attributes = Attributes({"A"})
    /\ calls[1].total_admitted = 949
    /\ calls[1].tolerance = R(20, 100)
    /\ calls[1].divisors = {949}

\* the orders a list of quotas can be supplied in
QuotaOrders(seq) ==
    {[i \in 1..Len(seq) |-> seq[f[i]]] :
        f \in {g \in [1..Len(seq) -> 1..Len(seq)] :
                  \A i, j \in 1..Len(seq) : g[i] = g[j] => i = j}}

\* C30: for a candidate with an attribute true, decide returns the same result
\* for every order of the quota list, and when it reaches the quota loop it
\* rejects exactly if the over- or under-representation test of some quota
\* rejects.
C30_QuotaOrderIrrelevant ==
    \A k \in 1..Len(calls) :
        ~NoTrueAttribute(calls[k].person.attributes) =>
            /\ \A perm \in QuotaOrders(strategy._constraints) :
                  decide([strategy EXCEPT !._constraints = perm], calls[k].person,
                         calls[k].game_state, calls[k].current_stats, calls[k].draw)
                      = calls[k].result
            /\ (/\ calls[k].game_state.admitted_count < 1000
                /\ calls[k].current_stats.admitted_people # <<>>)
                  => (~calls[k].result <=>
                         \E i \in 1..Len(strategy._constraints) :
                            \/ OverRepresented(strategy, strategy._constraints[i],
                                               calls[k].person, calls[k].current_stats)
                            \/ UnderRepresented(strategy, strategy._constraints[i],
                                                calls[k].person, calls[k].current_stats))

\* C30 witness: two quotas, A then B; the candidate has A only and one
\* candidate without attributes is admitted: the tests of A pass, the
\* under-representation test of B rejects
C30_Witness ==
    /\ Len(strategy._constraints) = 2
    /\ Len(calls) = 1
    /\ calls[1].person.attributes = Attributes({"A"})
    /\ calls[1].current_stats.admitted_people = <<Attributes({})>>
    /\ calls[1].game_state.admitted_count = 1
    /\ ~OverRepresented(strategy, strategy._constraints[1], calls[1].person,
                        calls[1].current_stats)
    /\ ~UnderRepresented(strategy, strategy._constraints[1], calls[1].person,
                         calls[1].current_stats)
    /\ UnderRepresented(strategy, strategy._constraints[2], calls[1].person,
                        calls[1].current_stats)
    /\ ~calls[1].result

====
